---- MODULE Spec2Model ----
(***************************************************************************)
(* ExecutionSystem of the compositor (COM_ExecutionSystem.cc): execute()   *)
(* initialises every operation and hands over to the execution model,      *)
(* which calls execute_work(); execute_work() splits a rectangle into      *)
(* horizontal bands, schedules one WorkPackage per band and waits on a     *)
(* counter guarded by work_mutex_ / work_finished_cond_.                   *)
(*                                                                         *)
(* One thread (the caller) runs execute() and execute_work(); every        *)
(* scheduled WorkPackage is run by some worker thread of WorkScheduler.    *)
(***************************************************************************)
EXTENDS Integers, Sequences, FiniteSets

\* ---------------------------------------------------------------- bounds
MaxThreads == 2   \* largest WorkScheduler::get_num_cpu_threads() explored
MaxHeight == 3    \* largest BLI_rcti_size_y(work_rect) explored
MaxOps == 2       \* largest number of operations in m_operations
MaxCalls == 2     \* execute_work calls one execution model run makes at most
MaxStale == 1     \* most packages of returned calls still with the scheduler
                  \* when the next execute_work call is explored
MaxGroups == 1    \* largest number of execution groups in m_groups

VARIABLES
    m_context,               \* CompositorContext, what this model reads of it
    m_operations,            \* Vector<NodeOperation *>, in vector order
    m_groups,                \* Vector<ExecutionGroup *>, in vector order
    execution_model_,        \* the model execution_model_ points to, "unset"
                             \* while never assigned, "deleted" after line 93
    work_finished_cond_,     \* "uninit", "ready" or "ended"
    num_work_threads_,       \* set by the constructor, line 85
    life,                    \* what was created, entered and deleted so far
    breaked,                 \* what btree->test_break(btree->tbh) answers now
    pc,                      \* position of the calling thread
    op_index,                \* position of the range-for of execute() or of
                             \* the destructor
    init_log,                \* operations whose init_data() has returned
    calls,                   \* execute_work calls made by this run so far
    work_rect,               \* argument of the current execute_work call
    work_height, num_sub_works, split_height, remaining_height,
    sub_work_y, i, num_sub_works_finished,    \* locals of execute_work
    sub_works,               \* Vector<WorkPackage> of the current call
    stale,                   \* number of packages the scheduler still holds
                             \* after their execute_work call has returned
    work_mutex_,             \* owner of work_mutex_, "none" when free,
                             \* "uninit" before line 66, "ended" after line 91
    trace                    \* what the current execute_work call did so far

locals == <<work_height, num_sub_works, split_height, remaining_height,
            sub_work_y, i, num_sub_works_finished>>
graph == <<m_context, m_operations, m_groups, execution_model_,
           work_finished_cond_, num_work_threads_>>
vars == <<m_context, m_operations, m_groups, execution_model_,
          work_finished_cond_, num_work_threads_, life, breaked, pc, op_index, init_log,
          calls, work_rect, work_height, num_sub_works, split_height,
          remaining_height, sub_work_y, i, num_sub_works_finished, sub_works,
          stale, work_mutex_, trace>>

\* ------------------------------------------------------------ pure helpers
MIN2(a, b) == IF a < b THEN a ELSE b

BLI_rcti_size_y(rect) == rect.ymax - rect.ymin

BLI_rcti_init(xmin, xmax, ymin, ymax) ==
    [xmin |-> xmin, xmax |-> xmax, ymin |-> ymin, ymax |-> ymax]

is_breaked_never == FALSE

\* lines 186-190
is_breaked == breaked

NumSubWorks_no_min(threads, height) == threads

\* line 134
NumSubWorks(threads, height) == MIN2(threads, height)

SplitHeight(height, n) == IF n = 0 THEN 0 ELSE height \div n

RemainingHeight(height, split, n) == height - split * n

SubWorkHeight_ge(split, remaining) ==
    IF remaining >= 0 THEN split + 1 ELSE split

\* lines 142-148: the band's height and the remainder left for later bands
SubWorkHeight(split, remaining) == IF remaining > 0 THEN split + 1 ELSE split

RemainingAfter_kept(remaining) == remaining

RemainingAfter(remaining) == IF remaining > 0 THEN remaining - 1 ELSE remaining

\* line 170
NextSubWorkY(y, height) == y + height

MustWait_or_equal(finished, n) == finished <= n

\* line 180: the test that decides whether the caller waits
MustWait(finished, n) == finished < n

SkipsWork_never(probe) == FALSE

\* line 153: the execute callback returns early on this probe value
SkipsWork(probe) == probe

IsLastSubWork_past(finished, n) == finished > n

\* line 164
IsLastSubWork(finished, n) == finished = n

Permutations(n) ==
    {s \in [1..n -> 1..n] : \A a, b \in 1..n : a # b => s[a] # s[b]}

InitLoopDone_early(index, n) == index >= n

\* line 116: the range-for of execute() has visited every operation
InitLoopDone(index, n) == index > n

LoopCond_one_short(index, n) == index + 1 < n

LoopCond_unless_breaked(index, n) == index < n /\ ~breaked

\* line 141
LoopCond(index, n) == index < n

NoTrace == [passed |-> "none", break_seen |-> FALSE, n_schedule |-> 0,
            n_finish |-> 0, n_lock |-> 0, n_wait |-> 0, n_notify |-> 0,
            sched_after_break |-> FALSE, ran_through_break |-> FALSE,
            woken_by |-> "none", assert_failed |-> FALSE,
            prev_passed |-> "none"]

NoRect == BLI_rcti_init(0, 0, 0, 0)

\* the origins and the x extent of the rectangles explored
YMins == {0, 1}
XMin == 0
XMax == 2

\* a default-constructed WorkPackage of Vector<WorkPackage> sub_works(n)
UnsetWork == [y |-> 0, h |-> 0, state |-> "unset", observed |-> "none",
              invoked |-> 0, completed |-> FALSE, rect |-> NoRect]

InCall == pc \in {"ew_entry", "ew_loop", "ew_finish", "ew_test",
                  "ew_wait", "ew_woken"}

\* the stack frame of execute_work holds initialised locals
FrameLive == pc \in {"ew_loop", "ew_finish", "ew_test",
                     "ew_wait", "ew_woken"}

\* the packages of `works' that have not been through executed_fn
Leftover(works) == Len(SelectSeq(works, LAMBDA w : w.state # "done"))

CreatedBySwitch_fallthrough(strategy) ==
    IF strategy = "Tiled"
    THEN <<"TiledExecutionModel", "FullFrameExecutionModel">>
    ELSE IF strategy = "FullFrame" THEN <<"FullFrameExecutionModel">>
    ELSE <<>>

\* lines 74-84: the models the switch creates for a strategy value, in the
\* order it creates them
CreatedBySwitch(strategy) ==
    IF strategy = "Tiled" THEN <<"TiledExecutionModel">>
    ELSE IF strategy = "FullFrame" THEN <<"FullFrameExecutionModel">>
    ELSE <<>>

\* what execution_model_ holds after the switch
AssignedBySwitch(created) ==
    IF created = <<>> THEN "unset" ELSE created[Len(created)]

NoLife == [created |-> <<>>, entered |-> <<>>, deleted |-> <<>>]

Init ==
    /\ m_context = [execution_model |-> "FullFrame"]
    /\ m_operations = [k \in 1..MaxOps |-> MaxOps + 1 - k]
    /\ m_groups = [k \in 1..MaxGroups |-> k]
    /\ execution_model_ = AssignedBySwitch(CreatedBySwitch("FullFrame"))
    /\ work_finished_cond_ = "ready"
    /\ life = [NoLife EXCEPT !.created = CreatedBySwitch("FullFrame")]
    /\ num_work_threads_ \in 1..MaxThreads
    /\ breaked \in BOOLEAN
    /\ pc = "idle"
    /\ op_index = 0
    /\ init_log = <<>>
    /\ calls = 0
    /\ work_rect = NoRect
    /\ work_height = 0 /\ num_sub_works = 0 /\ split_height = 0
    /\ remaining_height = 0 /\ sub_work_y = 0 /\ i = 0
    /\ num_sub_works_finished = 0
    /\ sub_works = <<>>
    /\ stale = 0
    /\ work_mutex_ = "none"
    /\ trace = NoTrace

\* ------------------------------------------------- execute(), lines 113-120
Execute ==
    /\ pc = "idle"
    /\ pc' = "init_data"
    /\ op_index' = 1
    /\ UNCHANGED <<graph, life, breaked, init_log, calls, work_rect, locals,
                   sub_works, stale, work_mutex_, trace>>

\* one iteration of the loop of lines 116-118
InitData ==
    /\ pc = "init_data"
    /\ ~InitLoopDone(op_index, Len(m_operations))
    /\ init_log' = Append(init_log, m_operations[op_index])
    /\ op_index' = op_index + 1
    /\ UNCHANGED <<graph, life, breaked, pc, calls, work_rect, locals, sub_works,
                   stale, work_mutex_, trace>>

\* line 119: the loop is over, execution_model_->execute(*this) is entered
\* A call through a pointer that was never assigned is undefined: the
\* process may stop there or run whatever the pointer happens to refer to.
ModelExecute ==
    /\ pc = "init_data"
    /\ InitLoopDone(op_index, Len(m_operations))
    /\ IF execution_model_ = "unset"
       THEN pc' \in {"crashed", "model_execute"}
       ELSE pc' = "model_execute"
    /\ life' = [life EXCEPT !.entered = Append(@, execution_model_)]
    /\ UNCHANGED <<graph, breaked, op_index, init_log, calls, work_rect,
                   locals, sub_works, stale, work_mutex_, trace>>

\* The execution model (Tiled or FullFrame) calls exec_system.execute_work
\* with some rectangle, one call after the other.
CallExecuteWork ==
    /\ pc \in {"model_execute", "ew_done"}
    /\ calls < MaxCalls
    /\ stale <= MaxStale
    /\ calls' = calls + 1
    /\ \E ymin \in YMins, height \in 0..MaxHeight :
          work_rect' = BLI_rcti_init(XMin, XMax, ymin, ymin + height)
    /\ pc' = "ew_entry"
    /\ trace' = [NoTrace EXCEPT !.break_seen = breaked,
                                !.prev_passed = trace.passed]
    /\ work_height' = 0 /\ num_sub_works' = 0 /\ split_height' = 0
    /\ remaining_height' = 0 /\ sub_work_y' = 0 /\ i' = 0
    /\ num_sub_works_finished' = 0
    /\ sub_works' = <<>>
    /\ UNCHANGED <<graph, life, breaked, op_index, init_log, stale, work_mutex_>>

\* execution_model_->execute(*this) returns and so does execute()
ModelReturn ==
    /\ pc \in {"model_execute", "ew_done"}
    /\ pc' = "returned"
    /\ UNCHANGED <<graph, life, breaked, op_index, init_log, calls, work_rect,
                   locals, sub_works, stale, work_mutex_, trace>>

\* --------------------------------------------- execute_work, lines 125-184
ExecuteWorkEntry_clamps_member ==
    /\ pc = "ew_entry"
    /\ IF is_breaked
       THEN /\ pc' = "ew_done"
            /\ trace' = [trace EXCEPT !.passed = "no"]
            /\ UNCHANGED <<locals, sub_works, num_work_threads_>>
       ELSE /\ pc' = "ew_loop"
            /\ trace' = [trace EXCEPT !.passed = "yes"]
            /\ work_height' = BLI_rcti_size_y(work_rect)
            /\ num_work_threads_' = NumSubWorks(num_work_threads_, work_height')
            /\ num_sub_works' = num_work_threads_'
            /\ split_height' = SplitHeight(work_height', num_sub_works')
            /\ remaining_height' =
                   RemainingHeight(work_height', split_height', num_sub_works')
            /\ sub_works' = [k \in 1..num_sub_works' |-> UnsetWork]
            /\ sub_work_y' = work_rect.ymin
            /\ num_sub_works_finished' = 0
            /\ i' = 0
    /\ UNCHANGED <<m_context, m_operations, m_groups, execution_model_,
                   work_finished_cond_, life, breaked, op_index, init_log,
                   calls, work_rect, stale, work_mutex_>>

\* lines 128-140: the cancellation check and the locals
ExecuteWorkEntry ==
    /\ pc = "ew_entry"
    /\ IF is_breaked
       THEN /\ pc' = "ew_done"
            /\ trace' = [trace EXCEPT !.passed = "no"]
            /\ UNCHANGED <<locals, sub_works>>
       ELSE /\ pc' = "ew_loop"
            /\ trace' = [trace EXCEPT !.passed = "yes"]
            /\ work_height' = BLI_rcti_size_y(work_rect)
            /\ num_sub_works' = NumSubWorks(num_work_threads_, work_height')
            /\ split_height' = SplitHeight(work_height', num_sub_works')
            /\ remaining_height' =
                   RemainingHeight(work_height', split_height', num_sub_works')
            /\ sub_works' = [k \in 1..num_sub_works' |-> UnsetWork]
            /\ sub_work_y' = work_rect.ymin
            /\ num_sub_works_finished' = 0
            /\ i' = 0
    /\ UNCHANGED <<graph, life, breaked, op_index, init_log, calls, work_rect,
                   stale, work_mutex_>>

\* one iteration of the loop of lines 141-171
ExecuteWorkLoop ==
    /\ pc = "ew_loop"
    /\ LoopCond(i, num_sub_works)
    /\ LET sub_work_height == SubWorkHeight(split_height, remaining_height)
       IN /\ remaining_height' = RemainingAfter(remaining_height)
          /\ sub_works' = [sub_works EXCEPT ![i + 1] =
                 [UnsetWork EXCEPT !.y = sub_work_y, !.h = sub_work_height,
                                   !.state = "queued"]]
          /\ sub_work_y' = NextSubWorkY(sub_work_y, sub_work_height)
    /\ i' = i + 1
    /\ trace' = [trace EXCEPT
          !.n_schedule = @ + 1,
          !.sched_after_break = @ \/ breaked]
    /\ UNCHANGED <<graph, life, breaked, pc, op_index, init_log, calls, work_rect,
                   work_height, num_sub_works, split_height,
                   num_sub_works_finished, stale, work_mutex_>>

\* lines 172-174: the loop is over, the assertion is evaluated and
\* WorkScheduler::finish() is called
ExecuteWorkAssert ==
    /\ pc = "ew_loop"
    /\ ~LoopCond(i, num_sub_works)
    /\ trace' = [trace EXCEPT !.assert_failed = (sub_work_y # work_rect.ymax),
                              !.n_finish = @ + 1]
    /\ pc' = "ew_finish"
    /\ UNCHANGED <<graph, life, breaked, op_index, init_log, calls, work_rect,
                   locals, sub_works, stale, work_mutex_>>

\* line 174: WorkScheduler::finish() returns; on the queue threading model it
\* does not wait for the queued works (lines 176-178), so it may return at
\* any moment.  line 179: the caller takes the mutex.
FinishAndLock ==
    /\ pc = "ew_finish"
    /\ work_mutex_ = "none"
    /\ work_mutex_' = "caller"
    /\ pc' = "ew_test"
    /\ trace' = [trace EXCEPT !.n_lock = @ + 1]
    /\ UNCHANGED <<graph, life, breaked, op_index, init_log, calls, work_rect,
                   locals, sub_works, stale>>

\* lines 183-184: unlock and return; the packages that are not done yet stay
\* with the scheduler while sub_works and the locals go out of scope
UnlockAndReturn ==
    /\ work_mutex_' = "none"
    /\ pc' = "ew_done"
    /\ stale' = stale + Leftover(sub_works)

\* lines 180-184: the test and, when it holds, the entry into
\* BLI_condition_wait, which releases the mutex; otherwise unlock and return
Test ==
    /\ pc = "ew_test"
    /\ IF MustWait(num_sub_works_finished, num_sub_works)
       THEN /\ pc' = "ew_wait"
            /\ work_mutex_' = "none"
            /\ trace' = [trace EXCEPT !.n_wait = @ + 1]
            /\ UNCHANGED stale
       ELSE /\ UnlockAndReturn
            /\ UNCHANGED trace
    /\ UNCHANGED <<graph, life, breaked, op_index, init_log, calls, work_rect,
                   locals, sub_works>>

\* line 181: a condition wait may end without any notification
SpuriousWakeup ==
    /\ pc = "ew_wait"
    /\ pc' = "ew_woken"
    /\ trace' = [trace EXCEPT !.woken_by = "spurious"]
    /\ UNCHANGED <<graph, life, breaked, op_index, init_log, calls, work_rect,
                   locals, sub_works, stale, work_mutex_>>

\* lines 181-184: the woken caller takes the mutex again and the wait
\* returns; the `if' of line 180 does not test again: unlock and return
WaitReturn ==
    /\ pc = "ew_woken"
    /\ work_mutex_ = "none"
    /\ UnlockAndReturn
    /\ UNCHANGED <<graph, life, breaked, op_index, init_log, calls, work_rect,
                   locals, sub_works, trace>>

\* --------------------------------- the callbacks of a WorkPackage, 152-168
Seen(probe) == IF probe THEN "true" ELSE "false"

RunExecuteFn_by_ref(w, probe, rect) ==
    IF SkipsWork(probe)
    THEN [w EXCEPT !.state = "executed", !.observed = Seen(probe)]
    ELSE [w EXCEPT !.state = "running", !.observed = Seen(probe),
                   !.invoked = @ + 1,
                   !.rect = BLI_rcti_init(rect.xmin, rect.xmax, sub_work_y,
                                          sub_work_y + w.h)]

\* What execute_fn does to the package w when the probe answers `probe'
\* (lines 153-159).
RunExecuteFn(w, probe, rect) ==
    IF SkipsWork(probe)
    THEN [w EXCEPT !.state = "executed", !.observed = Seen(probe)]
    ELSE [w EXCEPT !.state = "running", !.observed = Seen(probe),
                   !.invoked = @ + 1,
                   !.rect = BLI_rcti_init(rect.xmin, rect.xmax, w.y, w.y + w.h)]

\* work_func(split_rect) returns (line 159) and so does execute_fn
RunWorkFuncReturn(w) == [w EXCEPT !.state = "executed", !.completed = TRUE]

\* a worker starts execute_fn of the k-th package of the running call
ExecuteFn(k) ==
    /\ FrameLive
    /\ sub_works[k].state = "queued"
    /\ sub_works' = [sub_works EXCEPT ![k] = RunExecuteFn(@, is_breaked, work_rect)]
    /\ UNCHANGED <<graph, life, breaked, pc, op_index, init_log, calls, work_rect,
                   locals, stale, work_mutex_, trace>>

WorkFuncReturn(k) ==
    /\ FrameLive
    /\ sub_works[k].state = "running"
    /\ sub_works' = [sub_works EXCEPT ![k] = RunWorkFuncReturn(@)]
    /\ trace' = [trace EXCEPT !.ran_through_break = @ \/ breaked]
    /\ UNCHANGED <<graph, life, breaked, pc, op_index, init_log, calls, work_rect,
                   locals, stale, work_mutex_>>

\* BLI_condition_notify_one: a caller inside the wait is woken, a
\* notification nobody waits for is lost
NotifiedPc(signal) == IF signal /\ pc = "ew_wait" THEN "ew_woken" ELSE pc

NotifiedTrace(signal) ==
    IF ~signal THEN trace
    ELSE [trace EXCEPT !.n_notify = @ + 1,
                       !.woken_by = IF pc = "ew_wait" THEN "notify" ELSE @]

\* lines 161-168, executed_fn: lock, count, notify when the count reaches
\* num_sub_works, unlock.  The critical section is one step: the mutex is
\* free when it starts and free again when it ends.
ExecutedFn(k) ==
    /\ FrameLive
    /\ sub_works[k].state = "executed"
    /\ work_mutex_ = "none"
    /\ num_sub_works_finished' = num_sub_works_finished + 1
    /\ LET signal == IsLastSubWork(num_sub_works_finished', num_sub_works)
       IN /\ pc' = NotifiedPc(signal)
          /\ trace' = NotifiedTrace(signal)
    /\ sub_works' = [sub_works EXCEPT ![k].state = "done"]
    /\ UNCHANGED <<graph, life, breaked, op_index, init_log, calls, work_rect,
                   work_height, num_sub_works, split_height, remaining_height,
                   sub_work_y, i, stale, work_mutex_>>

\* ---------------------- packages that outlive their execute_work call
\* The scheduler still holds them and runs what is left of their callbacks.
\* Their closures and the locals they refer to (work_func,
\* num_sub_works_finished, num_sub_works) are out of scope.  executed_fn
\* (lines 161-168) takes the mutex, increments and compares through dangling
\* references and unlocks: either the stack slots now belong to the running
\* execute_work call (the same frame address), whose counter is then
\* incremented and compared, or they are dead memory and the comparison may
\* come out either way.
StaleExecutedFn ==
    /\ stale > 0
    /\ work_mutex_ = "none"
    /\ \/ /\ FrameLive
          /\ num_sub_works_finished' = num_sub_works_finished + 1
          /\ LET signal == IsLastSubWork(num_sub_works_finished', num_sub_works)
             IN /\ pc' = NotifiedPc(signal)
                /\ trace' = NotifiedTrace(signal)
       \/ /\ \E signal \in BOOLEAN :
                /\ pc' = NotifiedPc(signal)
                /\ trace' = NotifiedTrace(signal)
          /\ UNCHANGED num_sub_works_finished
    /\ stale' = stale - 1
    /\ UNCHANGED <<graph, life, breaked, op_index, init_log, calls, work_rect,
                   work_height, num_sub_works, split_height, remaining_height,
                   sub_work_y, i, sub_works, work_mutex_>>

\* ------------------------------------------------------ the host's break
\* the host sets the break flag that test_break reads (line 189)
SetBreak ==
    /\ ~breaked
    /\ breaked' = TRUE
    /\ trace' = IF InCall THEN [trace EXCEPT !.break_seen = TRUE] ELSE trace
    /\ UNCHANGED <<graph, life, pc, op_index, init_log, calls, work_rect, locals,
                   sub_works, stale, work_mutex_>>

Next ==
    \/ Execute
    \/ InitData
    \/ ModelExecute
    \/ CallExecuteWork
    \/ ModelReturn
    \/ ExecuteWorkEntry
    \/ ExecuteWorkLoop
    \/ ExecuteWorkAssert
    \/ FinishAndLock
    \/ Test
    \/ SpuriousWakeup
    \/ WaitReturn
    \/ \E k \in DOMAIN sub_works : ExecuteFn(k)
    \/ \E k \in DOMAIN sub_works : WorkFuncReturn(k)
    \/ \E k \in DOMAIN sub_works : ExecutedFn(k)
    \/ StaleExecutedFn
    \/ SetBreak

Spec == Init /\ [][Next]_vars

\* Any operation graph of up to MaxOps operations, in any vector order, run
\* with a single CPU thread.
InitGraph ==
    /\ m_context = [execution_model |-> "Tiled"]
    /\ execution_model_ = AssignedBySwitch(CreatedBySwitch("Tiled"))
    /\ life = [NoLife EXCEPT !.created = CreatedBySwitch("Tiled")]
    /\ \E n \in 0..MaxOps : m_operations \in Permutations(n)
    /\ m_groups = [k \in 1..MaxGroups |-> k]
    /\ work_finished_cond_ = "ready"
    /\ num_work_threads_ = 1
    /\ breaked \in BOOLEAN
    /\ pc = "idle"
    /\ op_index = 0
    /\ init_log = <<>>
    /\ calls = 0
    /\ work_rect = NoRect
    /\ work_height = 0 /\ num_sub_works = 0 /\ split_height = 0
    /\ remaining_height = 0 /\ sub_work_y = 0 /\ i = 0
    /\ num_sub_works_finished = 0
    /\ sub_works = <<>>
    /\ stale = 0
    /\ work_mutex_ = "none"
    /\ trace = NoTrace

SpecGraph == InitGraph /\ [][Next]_vars

\* ----------------------------------------------------- the split alone
\* The calling thread's part of execute_work up to finish(), for taller
\* regions and more threads than the runs with workers explore.
MaxSplitThreads == 4   \* most CPU threads
MaxSplitHeight == 10   \* tallest work_rect

InitSplit ==
    /\ m_context = [execution_model |-> "FullFrame"]
    /\ m_operations = [k \in 1..MaxOps |-> MaxOps + 1 - k]
    /\ m_groups = [k \in 1..MaxGroups |-> k]
    /\ execution_model_ = AssignedBySwitch(CreatedBySwitch("FullFrame"))
    /\ work_finished_cond_ = "ready"
    /\ life = [NoLife EXCEPT !.created = CreatedBySwitch("FullFrame"),
                             !.entered = <<execution_model_>>]
    /\ num_work_threads_ \in 1..MaxSplitThreads
    /\ breaked = FALSE
    /\ pc = "model_execute"
    /\ op_index = MaxOps + 1
    /\ init_log = m_operations
    /\ calls = 0
    /\ work_rect = NoRect
    /\ work_height = 0 /\ num_sub_works = 0 /\ split_height = 0
    /\ remaining_height = 0 /\ sub_work_y = 0 /\ i = 0
    /\ num_sub_works_finished = 0
    /\ sub_works = <<>>
    /\ stale = 0
    /\ work_mutex_ = "none"
    /\ trace = NoTrace

\* the execution model calls execute_work with a region of any height up to
\* MaxSplitHeight
CallExecuteWorkTall ==
    /\ pc = "model_execute"
    /\ calls' = calls + 1
    /\ \E ymin \in YMins, height \in 0..MaxSplitHeight :
          work_rect' = BLI_rcti_init(XMin, XMax, ymin, ymin + height)
    /\ pc' = "ew_entry"
    /\ trace' = [NoTrace EXCEPT !.break_seen = breaked,
                                !.prev_passed = trace.passed]
    /\ UNCHANGED <<graph, life, breaked, op_index, init_log, locals,
                   sub_works, stale, work_mutex_>>

NextSplit ==
    \/ CallExecuteWorkTall
    \/ ExecuteWorkEntry
    \/ ExecuteWorkLoop
    \/ ExecuteWorkAssert

SpecSplit == InitSplit /\ [][NextSplit]_vars

\* ------------------------------------------------------- fair scheduling
\* the thread that called execute_work keeps running
CallerStep ==
    \/ ExecuteWorkEntry
    \/ ExecuteWorkLoop
    \/ ExecuteWorkAssert
    \/ FinishAndLock
    \/ Test
    \/ WaitReturn

\* the scheduler runs every package it was given
WorkerStep ==
    \E k \in DOMAIN sub_works :
        ExecuteFn(k) \/ WorkFuncReturn(k) \/ ExecutedFn(k)

\* Nothing obliges the host to break, the model to call again, a wait to end
\* without a notification or a package of an earlier call to be run while
\* this call is waiting.
\* the CPU thread counts explored under fair scheduling
FairThreads == {1, 2}

\* the host may break at any moment of the run
InitFair == Init /\ num_work_threads_ \in FairThreads /\ ~breaked

SpecFair ==
    InitFair /\ [][Next]_vars /\ WF_vars(CallerStep) /\ WF_vars(WorkerStep)

\* ------------------------------------------- construction and destruction
\* The whole life of one ExecutionSystem: constructor (lines 37-86), at most
\* one execute(), destructor (lines 88-104).

\* the CPU thread counts the scheduler reports at line 85 in a whole life
LifeThreads == {1}

\* values m_context.get_execution_model() can return at line 74
Strategies == {"Tiled", "FullFrame", "Other"}

Deleted(what, id) == [what |-> what, id |-> id]

\* the state before the constructor runs: no member holds a value yet
InitLife ==
    /\ m_context = [execution_model |-> "none"]
    /\ m_operations = <<>>
    /\ m_groups = <<>>
    /\ execution_model_ = "unset"
    /\ work_finished_cond_ = "uninit"
    /\ work_mutex_ = "uninit"
    /\ num_work_threads_ = 0
    /\ life = NoLife
    /\ breaked \in BOOLEAN
    /\ pc = "unconstructed"
    /\ op_index = 0
    /\ init_log = <<>>
    /\ calls = 0
    /\ work_rect = NoRect
    /\ work_height = 0 /\ num_sub_works = 0 /\ split_height = 0
    /\ remaining_height = 0 /\ sub_work_y = 0 /\ i = 0
    /\ num_sub_works_finished = 0
    /\ sub_works = <<>>
    /\ stale = 0
    /\ trace = NoTrace

\* lines 46-64: the context is filled from the scene and the node tree; the
\* execution model the context reports is the tree's
CtorContext ==
    /\ pc = "unconstructed"
    /\ \E s \in Strategies : m_context' = [execution_model |-> s]
    /\ pc' = "ctor_sync"
    /\ UNCHANGED <<m_operations, m_groups, execution_model_,
                   work_finished_cond_, num_work_threads_, life, breaked,
                   op_index, init_log, calls, work_rect, locals, sub_works,
                   stale, work_mutex_, trace>>

\* lines 66-67
CtorSync ==
    /\ pc = "ctor_sync"
    /\ work_mutex_' = "none"
    /\ work_finished_cond_' = "ready"
    /\ pc' = "ctor_build"
    /\ UNCHANGED <<m_context, m_operations, m_groups, execution_model_,
                   num_work_threads_, life, breaked, op_index, init_log,
                   calls, work_rect, locals, sub_works, stale, trace>>

\* lines 69-72: the builder hands over operations and groups through
\* set_operations (lines 106-111)
CtorBuild ==
    /\ pc = "ctor_build"
    /\ m_operations' = [k \in 1..MaxOps |-> MaxOps + 1 - k]
    /\ m_groups' = [k \in 1..MaxGroups |-> k]
    /\ pc' = "ctor_switch"
    /\ UNCHANGED <<m_context, execution_model_, work_finished_cond_,
                   num_work_threads_, life, breaked, op_index, init_log,
                   calls, work_rect, locals, sub_works, stale, work_mutex_,
                   trace>>

\* lines 74-84.  BLI_assert_msg of the default case stops the process in a
\* build with assertions and is compiled out otherwise; both builds exist.
CtorSwitch ==
    /\ pc = "ctor_switch"
    /\ LET created == CreatedBySwitch(m_context.execution_model) IN
         /\ life' = [life EXCEPT !.created = @ \o created]
         /\ execution_model_' = IF created = <<>> THEN execution_model_
                                ELSE AssignedBySwitch(created)
         /\ IF created = <<>>
            THEN pc' \in {"aborted", "ctor_threads"}
            ELSE pc' = "ctor_threads"
    /\ UNCHANGED <<m_context, m_operations, m_groups, work_finished_cond_,
                   num_work_threads_, breaked, op_index, init_log, calls,
                   work_rect, locals, sub_works, stale, work_mutex_, trace>>

\* line 85
CtorThreads ==
    /\ pc = "ctor_threads"
    /\ num_work_threads_' \in LifeThreads
    /\ pc' = "idle"
    /\ UNCHANGED <<m_context, m_operations, m_groups, execution_model_,
                   work_finished_cond_, life, breaked, op_index, init_log,
                   calls, work_rect, locals, sub_works, stale, work_mutex_,
                   trace>>

\* lines 90-91, the first statements of the destructor.  The owner destroys
\* the system when no execute() is running and the scheduler holds none of
\* its packages.
DtorSyncEnd ==
    /\ pc \in {"idle", "returned"}
    /\ stale = 0
    /\ work_mutex_ = "none"
    /\ work_finished_cond_' = "ended"
    /\ work_mutex_' = "ended"
    /\ life' = [life EXCEPT !.deleted =
                    @ \o <<Deleted("cond", 0), Deleted("mutex", 0)>>]
    /\ pc' = "dtor_model"
    /\ UNCHANGED <<m_context, m_operations, m_groups, execution_model_,
                   num_work_threads_, breaked, op_index, init_log, calls,
                   work_rect, locals, sub_works, stale, trace>>

\* line 93.  delete of a pointer that was never assigned is undefined: the
\* process may stop there or go on.
DtorDeleteModel ==
    /\ pc = "dtor_model"
    /\ IF execution_model_ = "unset"
       THEN /\ pc' \in {"crashed", "dtor_ops"}
            /\ UNCHANGED <<execution_model_, life>>
       ELSE /\ pc' = "dtor_ops"
            /\ execution_model_' = "deleted"
            /\ life' = [life EXCEPT !.deleted =
                            Append(@, Deleted(execution_model_, 0))]
    /\ op_index' = 1
    /\ UNCHANGED <<m_context, m_operations, m_groups, work_finished_cond_,
                   num_work_threads_, breaked, init_log, calls, work_rect,
                   locals, sub_works, stale, work_mutex_, trace>>

DeleteLoopDone_early(index, n) == index >= n

\* the range-fors of lines 95-97 and 100-102 are done
DeleteLoopDone(index, n) == index > n

\* one iteration of lines 95-97
DtorDeleteOperation ==
    /\ pc = "dtor_ops"
    /\ ~DeleteLoopDone(op_index, Len(m_operations))
    /\ life' = [life EXCEPT !.deleted =
                    Append(@, Deleted("operation", m_operations[op_index]))]
    /\ op_index' = op_index + 1
    /\ UNCHANGED <<graph, breaked, pc, init_log, calls, work_rect, locals,
                   sub_works, stale, work_mutex_, trace>>

\* line 98
DtorClearOperations ==
    /\ pc = "dtor_ops"
    /\ DeleteLoopDone(op_index, Len(m_operations))
    /\ m_operations' = <<>>
    /\ op_index' = 1
    /\ pc' = "dtor_groups"
    /\ UNCHANGED <<m_context, m_groups, execution_model_,
                   work_finished_cond_, num_work_threads_, life, breaked,
                   init_log, calls, work_rect, locals, sub_works, stale,
                   work_mutex_, trace>>

\* one iteration of lines 100-102
DtorDeleteGroup ==
    /\ pc = "dtor_groups"
    /\ ~DeleteLoopDone(op_index, Len(m_groups))
    /\ life' = [life EXCEPT !.deleted =
                    Append(@, Deleted("group", m_groups[op_index]))]
    /\ op_index' = op_index + 1
    /\ UNCHANGED <<graph, breaked, pc, init_log, calls, work_rect, locals,
                   sub_works, stale, work_mutex_, trace>>

\* line 103
DtorClearGroups ==
    /\ pc = "dtor_groups"
    /\ DeleteLoopDone(op_index, Len(m_groups))
    /\ m_groups' = <<>>
    /\ pc' = "destroyed"
    /\ UNCHANGED <<m_context, m_operations, execution_model_,
                   work_finished_cond_, num_work_threads_, life, breaked,
                   op_index, init_log, calls, work_rect, locals, sub_works,
                   stale, work_mutex_, trace>>

NextLife ==
    \/ CtorContext
    \/ CtorSync
    \/ CtorBuild
    \/ CtorSwitch
    \/ CtorThreads
    \/ Next
    \/ DtorSyncEnd
    \/ DtorDeleteModel
    \/ DtorDeleteOperation
    \/ DtorClearOperations
    \/ DtorDeleteGroup
    \/ DtorClearGroups

SpecLife == InitLife /\ [][NextLife]_vars

\* ====================================================================
\* Properties
\* ====================================================================
Returned == pc = "ew_done"

PastLoop == pc \in {"ew_finish", "ew_test", "ew_wait", "ew_woken", "ew_done"}

Passed == trace.passed = "yes"

Cancelled == trace.passed = "no"

RECURSIVE SumHeights(_)
SumHeights(works) ==
    IF works = <<>> THEN 0 ELSE Head(works).h + SumHeights(Tail(works))

\* C1: an execute_work call that passed its initial cancellation check has
\* returned only when the completion counter equals the number of
\* sub-works and every sub-work has been through both of its callbacks.
C1_ReturnsOnlyWhenAllFinished ==
    (Returned /\ Passed) =>
        /\ num_sub_works_finished = num_sub_works
        /\ \A k \in DOMAIN sub_works : sub_works[k].state = "done"

\* C2: when the probe was false during the whole call, then at the return
\* of the call the per-region function has been invoked exactly once for
\* every sub-region.
C2_EachRegionRunOnceAtReturn ==
    (Returned /\ Passed /\ ~trace.break_seen) =>
        \A k \in DOMAIN sub_works : sub_works[k].invoked = 1

\* C3: a call that is not cancelled creates exactly min(T, H) sub-regions,
\* each of height base or base + 1 with base = H div min(T, H), and the
\* heights sum to H.
C3_SplitCountAndHeights ==
    (PastLoop /\ Passed) =>
        LET H == work_rect.ymax - work_rect.ymin
            T == num_work_threads_
            K == IF T < H THEN T ELSE H
        IN /\ Len(sub_works) = K
           /\ trace.n_schedule = K
           /\ \A k \in DOMAIN sub_works :
                 /\ sub_works[k].state # "unset"
                 /\ sub_works[k].h \in {H \div K, (H \div K) + 1}
           /\ SumHeights(sub_works) = H

C3_Witness ==
    /\ pc = "ew_finish" /\ Passed
    /\ num_work_threads_ = 2
    /\ work_rect.ymax - work_rect.ymin = 3
    /\ Len(sub_works) = 2

\* C4: the row ranges of the sub-regions tile [ymin, ymax): the first starts
\* at ymin, each next one starts where the previous one ends, the running
\* offset after the last one is ymax and the assertion of line 172 holds.
C4_BandsTileTheRect ==
    /\ (FrameLive /\ i > 0) => sub_works[1].y = work_rect.ymin
    /\ FrameLive =>
          \A k \in 1..i :
             /\ k < i => sub_works[k + 1].y = sub_works[k].y + sub_works[k].h
             /\ k = i => sub_work_y = sub_works[k].y + sub_works[k].h
    /\ (PastLoop /\ Passed) =>
          /\ sub_work_y = work_rect.ymax
          /\ ~trace.assert_failed

C4_Witness ==
    /\ pc = "ew_test" /\ Passed
    /\ work_rect.ymin = 1
    /\ Len(sub_works) = 2
    /\ sub_works[1].h # sub_works[2].h
    /\ sub_work_y = work_rect.ymax

\* C5: the step of execute_work taken with the probe true returns at once:
\* nothing is scheduled, finish() is not called, the mutex is not taken, the
\* condition is not waited on and the state of the system is left as it
\* was; this holds for every call, a repeated one included.
C5_CancelledCallIsNoOp ==
    [][(pc = "ew_entry" /\ breaked /\ pc' # "ew_entry") =>
          /\ pc' = "ew_done"
          /\ trace'.n_schedule = 0 /\ trace'.n_finish = 0
          /\ trace'.n_lock = 0 /\ trace'.n_wait = 0
          /\ UNCHANGED <<graph, life, breaked, op_index, init_log, calls, work_rect,
                         locals, sub_works, stale, work_mutex_>>]_vars

C5_Witness ==
    /\ Returned /\ Cancelled
    /\ calls = 2
    /\ trace.prev_passed = "no"
    /\ trace.n_schedule = 0 /\ trace.n_finish = 0

\* C6 (as claimed): a call with a region of height 0 and the probe false
\* makes no Scheduler Service call at all, neither schedule nor finish.
C6_NoSchedulerCallForEmptyRegion ==
    (Returned /\ Passed /\ work_rect.ymax = work_rect.ymin) =>
        /\ trace.n_schedule = 0
        /\ trace.n_finish = 0
        /\ trace.n_wait = 0

\* C6 (amended): a call with a region of height 0 and the probe false
\* creates no sub-region and schedules nothing, but it does call
\* WorkScheduler::finish() once and takes the mutex once; it never waits on
\* the condition variable.
C6_EmptyRegionOnlyFinishes ==
    (Passed /\ work_rect.ymax = work_rect.ymin) =>
        /\ sub_works = <<>>
        /\ trace.n_schedule = 0
        /\ trace.n_wait = 0
        /\ pc \notin {"ew_wait", "ew_woken"}
        /\ Returned => (trace.n_finish = 1 /\ trace.n_lock = 1)

C6_Witness ==
    /\ Returned /\ Passed
    /\ work_rect.ymax = work_rect.ymin
    /\ trace.n_finish = 1

\* C7 (as claimed): no WorkScheduler::schedule call is made at a point where
\* the probe is already true.
C7_NoScheduleOnceBreaked == ~trace.sched_after_break

\* C7 (amended): the probe is tested once, before the first submission: a
\* call that finds it true schedules nothing, and a call that finds it false
\* schedules all its sub-works, also when the probe turns true between two
\* submissions.
C7_ProbeTestedOnlyAtEntry ==
    /\ Cancelled => (trace.n_schedule = 0 /\ ~trace.sched_after_break)
    /\ (PastLoop /\ Passed) => trace.n_schedule = num_sub_works
    /\ (pc = "ew_loop") => trace.n_schedule = i

C7_Witness ==
    /\ pc = "ew_finish" /\ Passed
    /\ trace.sched_after_break
    /\ num_sub_works = 2
    /\ trace.n_schedule = 2

\* C8: a sub-work whose execute callback saw the probe true never invokes
\* the per-region function; one that saw it false invokes it once, and the
\* invocation runs to its end whatever the probe does meanwhile.
C8_ProbeRecheckedInCallback ==
    \A k \in DOMAIN sub_works :
        LET w == sub_works[k]
        IN /\ w.state \in {"unset", "queued"} =>
                (w.observed = "none" /\ w.invoked = 0)
           /\ w.state = "running" =>
                (w.observed = "false" /\ w.invoked = 1 /\ ~w.completed)
           /\ w.state \in {"executed", "done"} =>
                \/ w.observed = "true" /\ w.invoked = 0 /\ ~w.completed
                \/ w.observed = "false" /\ w.invoked = 1 /\ w.completed

C8_Witness ==
    /\ trace.ran_through_break
    /\ \E k \in DOMAIN sub_works :
          sub_works[k].observed = "false" /\ sub_works[k].completed
    /\ \E k \in DOMAIN sub_works :
          sub_works[k].observed = "true" /\ sub_works[k].state = "done"

\* C9: the completion counter starts at 0, changes only by +1 and never
\* while the caller holds the mutex, never exceeds the number of sub-works,
\* and equals it when execute_work returns.
C9_CounterDiscipline ==
    [][/\ (pc = "ew_entry" /\ pc' = "ew_loop") => num_sub_works_finished' = 0
       /\ (FrameLive /\ num_sub_works_finished' # num_sub_works_finished) =>
             /\ num_sub_works_finished' = num_sub_works_finished + 1
             /\ work_mutex_ = "none"
       /\ FrameLive' => num_sub_works_finished' <= num_sub_works'
       /\ (FrameLive /\ pc' = "ew_done" /\ Passed) =>
             num_sub_works_finished' = num_sub_works']_vars

\* C10: execute() calls init_data once on every operation, in vector order,
\* and enters the execution model only after the last of them: no
\* execute_work call, hence no submission, precedes an initialisation.
C10_InitDataBeforeModel ==
    /\ pc = "idle" => init_log = <<>>
    /\ pc = "init_data" =>
          /\ op_index \in 1..(Len(m_operations) + 1)
          /\ init_log = SubSeq(m_operations, 1, op_index - 1)
    /\ pc \notin {"idle", "init_data"} => init_log = m_operations
    /\ (calls > 0 \/ trace.n_schedule > 0) => init_log = m_operations

C10_Witness ==
    /\ Len(m_operations) = 2
    /\ m_operations[1] > m_operations[2]
    /\ init_log = m_operations
    /\ trace.n_schedule > 0

\* ------------------------------------------------------------------ C11
OwnedModels == {"TiledExecutionModel", "FullFrameExecutionModel"}

\* place of a teardown step in the order the destructor is claimed to follow
TeardownRank(e) ==
    IF e.what = "cond" THEN 0
    ELSE IF e.what = "mutex" THEN 1
    ELSE IF e.what \in OwnedModels THEN 2
    ELSE IF e.what = "operation" THEN 3
    ELSE 4

\* every object the constructor created or was handed is in the teardown log
AllOwnedDeleted ==
    LET d == life.deleted
        InLog(e) == \E a \in DOMAIN d : d[a] = e
    IN /\ \A m \in DOMAIN life.created : InLog(Deleted(life.created[m], 0))
       /\ \A o \in 1..MaxOps : InLog(Deleted("operation", o))
       /\ \A g \in 1..MaxGroups : InLog(Deleted("group", g))

\* C11 as stated: the destructor deletes the execution model, then the
\* operations, then the groups, and ends the barrier mutex and the condition
\* variable only after all of them: once the mutex or the condition variable
\* is in the teardown log, every owned object is in it already.
C11_SyncReleasedLast ==
    (\E a \in DOMAIN life.deleted : life.deleted[a].what \in {"cond", "mutex"})
        => AllOwnedDeleted

\* C11 amended: the destructor ends the condition variable and the barrier
\* mutex first, then deletes the execution model the constructor created,
\* then every operation, then every execution group; no object is deleted
\* twice, and when the destructor is done every owned object was deleted.
C11_SyncEndedFirstThenOwned ==
    LET d == life.deleted IN
    /\ \A a, b \in DOMAIN d :
          a < b => TeardownRank(d[a]) <= TeardownRank(d[b])
    /\ \A a, b \in DOMAIN d : a # b => d[a] # d[b]
    /\ pc = "destroyed" => AllOwnedDeleted
    /\ pc = "destroyed" => work_mutex_ = "ended" /\ work_finished_cond_ = "ended"

C11_Witness ==
    /\ pc = "destroyed"
    /\ Len(life.created) = 1
    /\ Len(life.deleted) = 3 + MaxOps + MaxGroups
    /\ life.deleted[1].what = "cond"
    /\ life.deleted[3].what \in OwnedModels

\* ------------------------------------------------------------------ C12
BeforeSwitch == pc \in {"unconstructed", "ctor_sync", "ctor_build", "ctor_switch"}

\* C12 as stated: with an execution strategy that is neither Tiled nor
\* FullFrame the constructor stops at the switch: it never gets past it, so
\* no system exists whose model reference is unset, and no work is scheduled.
C12_UnknownStrategyStopsConstruction ==
    m_context.execution_model = "Other"
        => /\ BeforeSwitch \/ pc = "aborted"
           /\ trace.n_schedule = 0

\* ------------------------------------------------------------------ C13
ModelVariantOf(strategy) ==
    IF strategy = "Tiled" THEN "TiledExecutionModel"
    ELSE "FullFrameExecutionModel"

ModelsDeleted ==
    SelectSeq(life.deleted, LAMBDA e : e.what \in OwnedModels)

\* C13: with the Tiled or the FullFrame strategy the constructor creates
\* exactly one execution model, of the variant of the strategy; that model
\* is the one execution_model_ refers to until the destructor deletes it, the
\* one every execute() enters and the one the destructor deletes; no second
\* model is ever created.
C13_OneModelOfTheStrategy ==
    m_context.execution_model \in {"Tiled", "FullFrame"} =>
      LET want == ModelVariantOf(m_context.execution_model) IN
      /\ BeforeSwitch => life.created = <<>> /\ execution_model_ = "unset"
      /\ ~BeforeSwitch => life.created = <<want>>
      /\ ~BeforeSwitch => execution_model_ \in {want, "deleted"}
      /\ \A e \in DOMAIN life.entered : life.entered[e] = want
      /\ ModelsDeleted = IF execution_model_ = "deleted"
                         THEN <<Deleted(want, 0)>> ELSE <<>>
      /\ pc \in {"dtor_ops", "dtor_groups", "destroyed"}
            => execution_model_ = "deleted"
      /\ pc \notin {"aborted", "crashed"}

C13_Witness ==
    /\ pc = "destroyed"
    /\ m_context.execution_model = "Tiled"
    /\ life.created = <<"TiledExecutionModel">>
    /\ life.entered = <<"TiledExecutionModel">>
    /\ calls > 0
    /\ ModelsDeleted = <<Deleted("TiledExecutionModel", 0)>>

\* ------------------------------------------------------------------ C14
\* positions of a constructed system that is not being destroyed
Constructed ==
    pc \in {"idle", "init_data", "model_execute", "ew_entry", "ew_loop",
            "ew_finish", "ew_test", "ew_wait", "ew_woken", "ew_done",
            "returned"}

\* C14: once constructed, no step of execute(), execute_work() or
\* is_breaked(), and no step of a worker, changes the context, the operation
\* list, the group list, the model reference or the recorded thread count;
\* the mutex and the condition variable stay initialised, and the mutex is
\* only taken and released.
C14_ExecutionKeepsTheSystem ==
    [][(Constructed /\ Constructed')
          => /\ UNCHANGED <<m_context, m_operations, m_groups,
                            execution_model_, num_work_threads_>>
             /\ work_finished_cond_ = "ready" /\ work_finished_cond_' = "ready"
             /\ work_mutex_ \in {"none", "caller"}
             /\ work_mutex_' \in {"none", "caller"}]_vars

C14_Witness ==
    /\ pc = "returned"
    /\ calls = MaxCalls
    /\ trace.n_notify > 0
    /\ num_sub_works_finished = num_sub_works
    /\ num_sub_works = MaxThreads
    /\ num_work_threads_ = MaxThreads
    /\ Len(m_operations) = MaxOps
    /\ execution_model_ = "FullFrameExecutionModel"

\* ------------------------------------------------------------------ C15
\* C15: when the calling thread and the scheduler's workers keep running,
\* every execute_work call returns, whenever the host sets the break flag.
C15_EveryCallReturns == (pc = "ew_entry") ~> (pc = "ew_done")

C15_Witness ==
    /\ pc = "ew_done"
    /\ trace.break_seen
    /\ trace.n_wait = 1
    /\ trace.woken_by = "notify"
    /\ num_sub_works = MaxThreads
    /\ num_sub_works_finished = num_sub_works
    /\ \E k \in DOMAIN sub_works :
          sub_works[k].invoked = 0 /\ sub_works[k].state = "done"

\* ------------------------------------------------------------------ C16
\* C16 as stated: during one execute_work call the condition variable is
\* notified at most once, and only by the step that takes the mutex and
\* raises the call's counter by one to num_sub_works; no notification
\* happens while the counter is below num_sub_works.
C16_NotifiedOnceAtTheLastCount ==
    [][(InCall /\ trace'.n_notify > trace.n_notify)
          => /\ trace.n_notify = 0
             /\ work_mutex_ = "none"
             /\ num_sub_works_finished' = num_sub_works_finished + 1
             /\ num_sub_works_finished' = num_sub_works]_vars

\* ------------------------------------------------------------------ C17
\* the packages handed to the scheduler so far are the first `n' of
\* sub_works, in rising row order
SubmittedInRowOrder(n) ==
    /\ \A k \in DOMAIN sub_works : (sub_works[k].state # "unset") <=> (k <= n)
    /\ \A k \in 1..(n - 1) : sub_works[k].y < sub_works[k + 1].y

\* C17: in a call that passed the cancellation check the packages are
\* scheduled one by one in rising row order; finish() is called only when all
\* num_sub_works of them are scheduled; the caller takes the barrier mutex
\* only after finish() and holds it neither while scheduling nor inside
\* finish().
C17_SubmitAllThenFinishThenLock ==
    /\ pc = "ew_loop"
          => /\ trace.n_schedule = i /\ i <= num_sub_works
             /\ SubmittedInRowOrder(i)
             /\ trace.n_finish = 0 /\ trace.n_lock = 0
             /\ work_mutex_ # "caller"
    /\ pc = "ew_finish"
          => /\ trace.n_schedule = num_sub_works
             /\ SubmittedInRowOrder(num_sub_works)
             /\ trace.n_finish = 1 /\ trace.n_lock = 0
             /\ work_mutex_ # "caller"
    /\ (InCall /\ trace.n_lock > 0)
          => /\ trace.n_lock = 1 /\ trace.n_finish = 1
             /\ trace.n_schedule = num_sub_works
    /\ work_mutex_ = "caller" => pc = "ew_test"

C17_Witness ==
    /\ pc = "ew_test"
    /\ work_mutex_ = "caller"
    /\ trace.passed = "yes"
    /\ trace.n_schedule = MaxThreads
    /\ trace.n_finish = 1
    /\ trace.n_lock = 1
    /\ sub_works[1].y < sub_works[MaxThreads].y

\* ------------------------------------------------------------------ C18
HeightsOf(works) == [k \in DOMAIN works |-> works[k].h]
OffsetsOf(works, ymin) == [k \in DOMAIN works |-> works[k].y - ymin]

\* C18: with H the height of the region, K the number of sub-regions and
\* R = H mod K, the first R sub-regions are H div K + 1 rows tall and the
\* other K - R are H div K rows tall, so heights never rise along the list; a
\* region of height 10 with 4 threads is split into heights 3, 3, 2, 2 at
\* offsets 0, 3, 6, 8 and the running offset ends at 10.
C18_RemainderToTheFirst ==
    (pc = "ew_finish" /\ num_sub_works > 0) =>
      LET H == work_rect.ymax - work_rect.ymin
          K == num_sub_works
          R == H % K
      IN /\ \A k \in 1..K :
               sub_works[k].h = (H \div K) + (IF k <= R THEN 1 ELSE 0)
         /\ \A k \in 1..(K - 1) : sub_works[k].h >= sub_works[k + 1].h
         /\ (H = 10 /\ num_work_threads_ = 4)
               => /\ HeightsOf(sub_works) = <<3, 3, 2, 2>>
                  /\ OffsetsOf(sub_works, work_rect.ymin) = <<0, 3, 6, 8>>
                  /\ sub_work_y - work_rect.ymin = 10

C18_Witness ==
    /\ pc = "ew_finish"
    /\ work_rect.ymax - work_rect.ymin = 10
    /\ num_work_threads_ = 4
    /\ num_sub_works = 4
    /\ HeightsOf(sub_works) = <<3, 3, 2, 2>>
    /\ sub_works[4].y = work_rect.ymin + 8

\* ------------------------------------------------------------------ C19
\* the row offset of the k-th of K bands of a region of height H
OffsetOfBand(k, H, K) ==
    (k - 1) * (H \div K) + (IF k - 1 < H % K THEN k - 1 ELSE H % K)

\* C19: every rectangle work_func was called with is at least one row tall,
\* lies inside work_rect, spans work_rect's xmin..xmax, and has the y bounds
\* of its own band as they were when the package was scheduled, whatever the
\* running offset has become since and in whatever order the workers run.
C19_RectOfItsOwnBand ==
    FrameLive =>
      \A k \in DOMAIN sub_works :
        sub_works[k].invoked > 0 =>
          LET r == sub_works[k].rect
              H == work_rect.ymax - work_rect.ymin
          IN /\ r.ymax - r.ymin >= 1
             /\ r.ymin >= work_rect.ymin /\ r.ymax <= work_rect.ymax
             /\ r.xmin = work_rect.xmin /\ r.xmax = work_rect.xmax
             /\ r.ymin = work_rect.ymin + OffsetOfBand(k, H, num_sub_works)
             /\ r.ymax = work_rect.ymin + OffsetOfBand(k + 1, H, num_sub_works)
             /\ sub_works[k].invoked = 1

C19_Witness ==
    /\ pc = "ew_finish"
    /\ num_sub_works = 2
    /\ work_rect.ymin = 1 /\ work_rect.ymax = 4
    /\ sub_work_y = work_rect.ymax
    /\ sub_works[2].completed
    /\ sub_works[2].rect.ymin = 3 /\ sub_works[2].rect.ymax = 4
    /\ sub_works[1].state = "running"
    /\ sub_works[1].rect.ymin = 1 /\ sub_works[1].rect.ymax = 3

====
